---------------------------- MODULE Spec2Model ----------------------------
(***************************************************************************)
(* Grey compiler: Betti RDL backend (grey_backends::betti_rdl) and the     *)
(* cross-implementation parity harness (grey_harness).                     *)
(*                                                                         *)
(* The backend validates an IR program, resolves the runtime process       *)
(* count and placement, emits two artifacts, and drives the Betti kernel   *)
(* (create, spawn, inject, run, query).  The harness runs that pipeline,   *)
(* invokes the C++ reference binary and compares the two results.          *)
(***************************************************************************)
EXTENDS Integers, Sequences, FiniteSets, TLC

VARIABLES
    pc,          \* position of the driver (harness stage or backend test step)
    mode,        \* "none" | "harness" (grey_harness) | "backend" (direct use)
    hconfig,     \* HarnessConfig
    program,     \* IrProgram handed to generate_code
    config,      \* BettiConfig of the backend
    validation,  \* what validate_program returned inside generate_code
    gen,         \* what generate_code returned
    kernel,      \* the Betti kernel of the execute call in progress
    calls,       \* engine calls issued by the execute call in progress
    spawned,     \* execute's process_coords: the Vec<Coord> spawn_processes returned
    rng,         \* XorShift64 state of the injector, with the values drawn
    telemetry,   \* ExecutionTelemetry returned by the last execute
    grey,        \* ExecutionResult of execute_grey
    runs,        \* completed execute calls: their engine calls and telemetry
    reference,   \* reference binary: build, invocation and parsed result
    comparison,  \* ComparisonResult of run_harness
    failure,     \* the stage whose error ended the run
    printed,     \* lines print_summary wrote to stdout
    exit_code    \* process exit code of the harness binary

vars == << pc, mode, hconfig, program, config, validation, gen, kernel, calls,
           spawned, rng, telemetry, grey, runs, reference, comparison,
           failure, printed, exit_code >>

(***************************************************************************)
(* Program constants.                                                      *)
(***************************************************************************)
KernelHardLimit == 2048
TorusSize == 32
XStride == 1024
MaxInjections == 4
ValueModulus == 5
WordBits == 64
CoordMax == 31
DefaultMaxProcesses == 1024

(***************************************************************************)
(* Bounds of the model.                                                    *)
(***************************************************************************)
MaxIrProcs == 2

(***************************************************************************)
(* Option, as Rust's Option<T>.                                            *)
(***************************************************************************)
None == << >>
Some(v) == << v >>
is_some(o) == o # << >>
unwrap(o) == o[1]
or_else(o, alt) == IF is_some(o) THEN o ELSE alt
unwrap_or(o, d) == IF is_some(o) THEN unwrap(o) ELSE d

\* HashMap: a function on its key set
EmptyMap == [k \in {} |-> 0]
get(map, key) == IF key \in DOMAIN map THEN Some(map[key]) ELSE None
insert(map, key, v) == [k \in DOMAIN map \cup {key} |-> IF k = key THEN v ELSE map[k]]

Min(a, b) == IF a <= b THEN a ELSE b
Max(a, b) == IF a >= b THEN a ELSE b

(***************************************************************************)
(* grey_ir: Coord and IrValue.                                             *)
(***************************************************************************)
Coord(x, y, z) == [x |-> x, y |-> y, z |-> z]

is_valid_exclusive(c) ==
    /\ c.x \in 0..(CoordMax - 1)
    /\ c.y \in 0..(CoordMax - 1)
    /\ c.z \in 0..(CoordMax - 1)

is_valid_x_only(c) == c.x \in 0..CoordMax

is_valid(c) ==
    /\ c.x \in 0..CoordMax
    /\ c.y \in 0..CoordMax
    /\ c.z \in 0..CoordMax

Integer(i) == [tag |-> "Integer", i |-> i]
NonInteger(tag) == [tag |-> tag, i |-> 0]

(***************************************************************************)
(* Errors and results.                                                     *)
(***************************************************************************)
Ok == [kind |-> "Ok", msg |-> ""]
ValidationError(msg) == [kind |-> "ValidationError", msg |-> msg]

\* utils::validate_program: the first process with an invalid coordinate,
\* then the process-count bound.
validate_program(p) ==
    IF \E i \in 1..Len(p.processes) : ~is_valid(p.processes[i].coord)
    THEN ValidationError("invalid coordinate")
    ELSE IF Len(p.processes) > p.resources.max_processes
         THEN ValidationError("too many processes")
         ELSE Ok


(***************************************************************************)
(* Process names.  A name is the sequence of its characters' codes, so     *)
(* that String's ordering (lexicographic, by code) is what cmp computes.   *)
(***************************************************************************)
RECURSIVE Decimal(_)
\* format!("{}", n) for n >= 0
Decimal(n) ==
    IF n < 10 THEN << 48 + n >> ELSE Decimal(n \div 10) \o << 48 + (n % 10) >>

\* format!("p{}", i)
PName(i) == << 112 >> \o Decimal(i)

RECURSIVE str_lt(_, _)
\* a.cmp(b) == Less for two strings
str_lt(left, right) ==
    IF right = << >> THEN FALSE
    ELSE IF left = << >> THEN TRUE
    ELSE IF Head(left) # Head(right) THEN Head(left) < Head(right)
    ELSE str_lt(Tail(left), Tail(right))

\* keys().collect() followed by sort() / sort_by(|a, b| a.cmp(b)): the keys of
\* a map in ascending order.  The keys are distinct, so the k-th of them is
\* the one that has k - 1 keys below it, whatever order the map iterates in.
sort(keys) ==
    LET rank == [x \in keys |-> Cardinality({y \in keys : str_lt(y, x)})]
        at == [r \in {rank[x] : x \in keys} |-> CHOOSE x \in keys : rank[x] = r]
    IN  [k \in 1..Cardinality(keys) |-> at[k - 1]]

(***************************************************************************)
(* ProcessPlacement.                                                       *)
(***************************************************************************)
SingleNode == [kind |-> "SingleNode", spacing |-> 0, coords |-> EmptyMap]
GridLayout(spacing) == [kind |-> "GridLayout", spacing |-> spacing, coords |-> EmptyMap]
Custom(coords) == [kind |-> "Custom", spacing |-> 0, coords |-> coords]

\* coords.len() of a Custom map / files.len(): a function's domain size
len(map) == Cardinality(DOMAIN map)

(***************************************************************************)
(* generate_code: resolution of runtime_process_count.                     *)
(***************************************************************************)
\* the and_then closure: IrValue::Integer(i) if *i > 0 => Some(*i as usize)
positive_integer(v) ==
    IF v.tag = "Integer" /\ v.i > 0 THEN Some(v.i) ELSE None

and_then_positive(o) == IF is_some(o) THEN positive_integer(unwrap(o)) ELSE None

\* constants.get("RUNTIME_PROCESSES").or_else(|| constants.get("MAX_PROCESSES"))
\*     .and_then(positive integer)
from_constants(p) ==
    and_then_positive(or_else(get(p.constants, "RUNTIME_PROCESSES"),
                              get(p.constants, "MAX_PROCESSES")))

runtime_process_count(placement, p) ==
    CASE placement.kind = "Custom" -> Max(len(placement.coords), 1)
      [] placement.kind = "SingleNode" -> 1
      [] placement.kind = "GridLayout" ->
            unwrap_or(from_constants(p), Max(Len(p.processes), 1))

exceeds_max_processes_off_by_one(rpc, p) == rpc > p.resources.max_processes + 1

exceeds_max_processes(rpc, p) == rpc > p.resources.max_processes

exceeds_kernel_limit(rpc) == rpc > KernelHardLimit

(***************************************************************************)
(* Grid placement.                                                         *)
(***************************************************************************)
grid_size_floor(n) ==
    Max(CHOOSE g \in 0..n : g * g <= n /\ \A h \in (g + 1)..n : h * h > n, 1)

\* ((n as f32).sqrt().ceil() as i32).max(1).  Every n that reaches this
\* line is at most KernelHardLimit, where f32 holds n exactly and the
\* rounded square root never lands on the integer below an inexact root,
\* so the result is the least g with g * g >= n.
grid_size(n) ==
    Max(CHOOSE g \in 0..n : g * g >= n /\ \A h \in 0..(g - 1) : h * h < n, 1)

\* the coordinate of index i: x = i % grid_size, y = i / grid_size, z = 0,
\* each multiplied by spacing
grid_coord(i, g, spacing) ==
    Coord((i % g) * spacing, (i \div g) * spacing, 0 * spacing)


RECURSIVE parse_decimal(_, _)
\* the number a digit string spells
parse_decimal(digits, number) ==
    IF digits = << >> THEN number
    ELSE parse_decimal(Tail(digits), number * 10 + (Head(digits) - 48))

\* generate_code, ProcessPlacement::GridLayout arm: for i in 0..rpc the
\* entry format!("p{}", i) -> coordinate of i.  The keys are distinct, so
\* the map is the function that takes the name of i to the coordinate of i.
grid_placement(rpc, spacing) ==
    LET g == grid_size(rpc)
    IN  [nm \in {PName(i) : i \in 0..(rpc - 1)} |->
            grid_coord(parse_decimal(Tail(nm), 0), g, spacing)]

\* generate_code: let process_coords = match &self.config.process_placement
placement_coords(placement, rpc) ==
    CASE placement.kind = "SingleNode" -> insert(EmptyMap, PName(0), Coord(0, 0, 0))
      [] placement.kind = "GridLayout" -> grid_placement(rpc, placement.spacing)
      [] placement.kind = "Custom" -> placement.coords

(***************************************************************************)
(* Code emitter.  An artifact is kept as the data its text embeds.         *)
(***************************************************************************)
\* the entries in descending order of name
sorted_entries_descending(process_coords) ==
    LET names == sort(DOMAIN process_coords)
        n == Len(names)
    IN  [k \in 1..n |-> [name |-> names[n + 1 - k], coord |-> process_coords[names[n + 1 - k]]]]

\* entries of a name -> Coord map sorted by name
sorted_entries(process_coords) ==
    LET names == sort(DOMAIN process_coords)
    IN  [k \in 1..Len(names) |-> [name |-> names[k], coord |-> process_coords[names[k]]]]

generate_executable_code(cfg, p, process_coords) ==
    [ program_name    |-> p.name,
      process_entries |-> sorted_entries(process_coords),
      spawn_entries   |-> sorted_entries(process_coords),
      \* inject_events: one event of value 1 at "p0", emitted when the map
      \* is not empty
      inject_p0       |-> process_coords # EmptyMap,
      test_max_events |-> cfg.max_events,
      test_process_count |-> len(process_coords) ]

generate_validation_code(p) ==
    [ program_name       |-> p.name,
      expected_processes |-> unwrap_or(from_constants(p), Max(Len(p.processes), 1)),
      expected_events    |-> Len(p.events) ]

estimate_execution_time_ns(cfg, p, rpc) ==
    LET event_count == Len(p.events)
        max_events == IF cfg.max_events > 0 THEN cfg.max_events ELSE event_count
        bounded_events == IF max_events = 0 THEN event_count
                          ELSE Min(event_count, max_events)
    IN  bounded_events * 1000 + rpc * 500

(***************************************************************************)
(* CodeGenerator::generate_code.                                           *)
(***************************************************************************)
Err_with_output(e) == [result |-> e, output |-> Some(<< >>)]

Err(e) == [result |-> e, output |-> None]

generate_output(cfg, p, rpc) ==
    LET process_coords == placement_coords(cfg.process_placement, rpc)
        runtime_config == [ max_events |-> cfg.max_events,
                            process_placement |-> cfg.process_placement,
                            event_ordering |-> "Deterministic" ]
        files == insert(insert(EmptyMap,
                     << p.name, "_betti.rs" >>,
                     [kind |-> "executable",
                      body |-> generate_executable_code(cfg, p, process_coords)]),
                     << p.name, "_validation.rs" >>,
                     [kind |-> "validation", body |-> generate_validation_code(p)])
        metadata == [ source_name |-> p.name,
                      process_count |-> Len(p.processes),
                      runtime_process_count |-> rpc,
                      event_count |-> Len(p.events),
                      expected_execution_time |->
                          Some(estimate_execution_time_ns(cfg, p, rpc)) ]
    IN  [ result |-> Ok,
          output |-> Some([ files |-> files,
                            runtime_config |-> runtime_config,
                            metadata |-> metadata ]) ]

generate_code(cfg, p) ==
    LET v == validate_program(p)
        rpc == runtime_process_count(cfg.process_placement, p)
    IN  IF v.kind # "Ok" THEN Err(v)
        ELSE IF exceeds_max_processes(rpc, p)
        THEN Err(ValidationError("runtime process count exceeds max_processes"))
        ELSE IF exceeds_kernel_limit(rpc)
        THEN Err(ValidationError("runtime process count exceeds kernel hard limit"))
        ELSE generate_output(cfg, p, rpc)


(***************************************************************************)
(* The Betti kernel (betti_rdl::Kernel), a deterministic engine behind the *)
(* capability interface: spawn, inject, run, and read-only queries.  The   *)
(* engine is linked in through FFI and its code is not part of these       *)
(* sources; it is modelled from the specification's description.           *)
(***************************************************************************)
\* the engine's 32 x 32 x 32 toroidal address of a coordinate
engine_node(x, y, z) ==
    (x % TorusSize) * XStride + (y % TorusSize) * TorusSize + (z % TorusSize)

Kernel_new == [ state |-> EmptyMap, pending |-> << >>,
                events_processed |-> 0, current_time |-> 0 ]

Kernel_spawn_process(k, x, y, z) ==
    LET n == engine_node(x, y, z)
    IN  IF n \in DOMAIN k.state THEN k
        ELSE [k EXCEPT !.state = insert(k.state, n, 0)]

Kernel_inject_event(k, x, y, z, value) ==
    [k EXCEPT !.pending = Append(k.pending, [node |-> engine_node(x, y, z),
                                              value |-> value])]

RECURSIVE Kernel_deliver(_, _)
\* the first `count` pending events, in order: each adds its value to the
\* state of the process at its node and advances the clock by one
Kernel_deliver(engine, count) ==
    IF count = 0 \/ engine.pending = << >> THEN engine
    ELSE LET e == Head(engine.pending)
             st == IF e.node \in DOMAIN engine.state
                   THEN [engine.state EXCEPT ![e.node] = @ + e.value]
                   ELSE engine.state
         IN  Kernel_deliver([ state |-> st, pending |-> Tail(engine.pending),
                              events_processed |-> engine.events_processed + 1,
                              current_time |-> engine.current_time + 1 ], count - 1)

\* run(max_events): at most max_events events; a cap that is not positive
\* is no cap
Kernel_run(k, max_events) ==
    Kernel_deliver(k, IF max_events > 0 THEN Min(max_events, Len(k.pending))
                      ELSE Len(k.pending))

Kernel_process_state(k, pid) == IF pid \in DOMAIN k.state THEN k.state[pid] ELSE 0

(***************************************************************************)
(* Engine calls, as execute issues them.                                   *)
(***************************************************************************)
Call(op, args) == [op |-> op, args |-> args]
CreateCall == Call("create", << >>)
SpawnCall(c) == Call("spawn_process", << c.x, c.y, c.z >>)
InjectCall(c, value) == Call("inject_event", << c.x, c.y, c.z, value >>)
RunCall(max_events) == Call("run", << max_events >>)
QueryCall(op, args) == Call(op, args)

Queries == {"events_processed", "current_time", "process_state"}

\* the engine calls of the emitted inject_events method: one event of value
\* 1 at the table's "p0" entry, emitted when the placement was not empty
artifact_inject_events(body) ==
    LET p0 == {k \in 1..Len(body.process_entries) : body.process_entries[k].name = PName(0)}
    IN  IF body.inject_p0 /\ p0 # {}
        THEN << InjectCall(body.process_entries[CHOOSE k \in p0 : TRUE].coord, 1) >>
        ELSE << >>

(***************************************************************************)
(* XorShift64, a u64 kept as the set of positions of its one bits (bit i   *)
(* has weight 2^i); bits shifted past position 63 are lost.                *)
(***************************************************************************)
Bits == 0..(WordBits - 1)

\* the word of a number below 2^31
ToWord(n) == {i \in 0..30 : (n \div (2 ^ i)) % 2 = 1}

\* x << k
shl(x, k) == {i + k : i \in x} \cap Bits
\* x >> k
shr(x, k) == {i - k : i \in x} \cap Bits
\* a ^ b
xor(a, b) == (a \ b) \cup (b \ a)

\* 2^k % n for k <= 32, without leaving 32 bits
pow2_mod(k, n) ==
    IF k <= 16 THEN (2 ^ k) % n ELSE (((2 ^ 16) % n) * ((2 ^ (k - 16)) % n)) % n

RECURSIVE bits_mod(_, _, _, _)
\* the number spelled by the `width` bits of word from position low, modulo
\* modulus: the upper half times 2^half plus the lower half
bits_mod(word, low, width, modulus) ==
    IF width = 1 THEN (IF low \in word THEN 1 ELSE 0) % modulus
    ELSE LET half == width \div 2
         IN  (bits_mod(word, low + half, half, modulus) * pow2_mod(half, modulus)
              + bits_mod(word, low, half, modulus)) % modulus

\* w % n for a word w and 0 < n < 2^15
word_mod(w, n) == bits_mod(w, 0, WordBits, n)

XorShift64_new_unfloored(seed) == ToWord(seed)

XorShift64_new_per_run(seed) == ToWord(Max(seed, 1) + Len(runs))

\* XorShift64::new: state = seed.max(1)
XorShift64_new(seed) == ToWord(Max(seed, 1))

\* XorShift64::next_u64: x ^= x << 13; x ^= x >> 7; x ^= x << 17
next_u64(state) ==
    LET x1 == xor(state, shl(state, 13))
        x2 == xor(x1, shr(x1, 7))
    IN  xor(x2, shl(x2, 17))


(***************************************************************************)
(* execute: spawn_processes, inject_initial_events, collect_telemetry.     *)
(***************************************************************************)
spawn_coords_descending(output) ==
    LET process_count == output.metadata.runtime_process_count
        placement == output.runtime_config.process_placement
    IN  CASE placement.kind = "SingleNode" -> << Coord(0, 0, 0) >>
          [] placement.kind = "GridLayout" ->
                LET g == grid_size(process_count)
                IN  [k \in 1..process_count |-> grid_coord(k - 1, g, placement.spacing)]
          [] placement.kind = "Custom" ->
                LET keys == sort(DOMAIN placement.coords)
                IN  [k \in 1..Len(keys) |-> placement.coords[keys[Len(keys) + 1 - k]]]

\* the coordinates spawn_processes spawns, in order
spawn_coords(output) ==
    LET process_count == output.metadata.runtime_process_count
        placement == output.runtime_config.process_placement
    IN  CASE placement.kind = "SingleNode" -> << Coord(0, 0, 0) >>
          [] placement.kind = "GridLayout" ->
                LET g == grid_size(process_count)
                IN  [k \in 1..process_count |-> grid_coord(k - 1, g, placement.spacing)]
          [] placement.kind = "Custom" ->
                LET keys == sort(DOMAIN placement.coords)
                IN  [k \in 1..Len(keys) |-> placement.coords[keys[k]]]

\* idx = (rng.next_u64() as usize) % process_coords.len()
draw_index(draw, n) == word_mod(draw, n)

draw_value_zero_based(draw) == word_mod(draw, ValueModulus)

\* value = (rng.next_u64() % 5) as i32 + 1
draw_value(draw) == word_mod(draw, ValueModulus) + 1

\* injections = 4.min(process_coords.len())
injection_count(n) == Min(MaxInjections, n)

\* one turn of the injection loop: two draws, index first, then value
inject_once(acc, process_coords) ==
    LET d1 == next_u64(acc.state)
        d2 == next_u64(d1)
        idx == draw_index(d1, Len(process_coords))
        value == draw_value(d2)
    IN  [ state |-> d2,
          draws |-> acc.draws \o << d1, d2 >>,
          calls |-> Append(acc.calls, InjectCall(process_coords[idx + 1], value)) ]

RECURSIVE inject_loop(_, _, _)
\* for _ in 0..injections
inject_loop(left, done, targets) ==
    IF left = 0 THEN done
    ELSE inject_loop(left - 1, inject_once(done, targets), targets)

\* inject_initial_events: nothing for an empty list, otherwise a generator
\* seeded from the configuration and the injection loop
inject_initial_events(seed, process_coords) ==
    IF process_coords = << >>
    THEN [state |-> ToWord(0), draws |-> << >>, calls |-> << >>]
    ELSE inject_loop(injection_count(Len(process_coords)),
                     [state |-> XorShift64_new(seed), draws |-> << >>, calls |-> << >>],
                     process_coords)

\* Rust's % on i32: the remainder has the sign of the dividend
rust_rem(v, m) == LET r == v % m IN IF v < 0 /\ r # 0 THEN r - m ELSE r

wrap_truncating(v) == rust_rem(v, TorusSize)

wrap(v) == LET m == rust_rem(v, TorusSize) IN IF m < 0 THEN m + TorusSize ELSE m

node_id_flat(c) == wrap(c.x) * TorusSize + wrap(c.y) * TorusSize + wrap(c.z)

node_id(c) == wrap(c.x) * XStride + wrap(c.y) * TorusSize + wrap(c.z)

RECURSIVE collect_states(_, _, _)
\* for coord in process_coords: process_states.insert(pid, kernel.process_state(pid)),
\* the list taken in order (split in halves to keep the evaluation shallow)
collect_states(engine, targets, done) ==
    IF targets = << >> THEN done
    ELSE IF Len(targets) = 1
    THEN LET pid == node_id(targets[1])
         IN  [ states |-> insert(done.states, pid, Kernel_process_state(engine, pid)),
               calls |-> Append(done.calls, QueryCall("process_state", << pid >>)) ]
    ELSE LET h == Len(targets) \div 2
         IN  collect_states(engine, SubSeq(targets, h + 1, Len(targets)),
                            collect_states(engine, SubSeq(targets, 1, h), done))

collect_telemetry_always(k, process_coords, execution_time_ns, telemetry_enabled) ==
    LET got == collect_states(k, process_coords, [states |-> EmptyMap, calls |-> << >>])
    IN  [ telemetry |-> [ events_processed |-> k.events_processed,
                          current_time |-> k.current_time,
                          execution_time_ns |-> execution_time_ns,
                          memory_usage_kb |-> None,
                          process_states |-> got.states ],
          calls |-> got.calls \o << QueryCall("events_processed", << >>),
                                    QueryCall("current_time", << >>) >> ]

\* the telemetry of execute and the queries that produce it
collect_telemetry(k, process_coords, execution_time_ns, telemetry_enabled) ==
    LET got == IF telemetry_enabled
               THEN collect_states(k, process_coords, [states |-> EmptyMap, calls |-> << >>])
               ELSE [states |-> EmptyMap, calls |-> << >>]
    IN  [ telemetry |-> [ events_processed |-> k.events_processed,
                          current_time |-> k.current_time,
                          execution_time_ns |-> execution_time_ns,
                          memory_usage_kb |-> None,
                          process_states |-> got.states ],
          calls |-> got.calls \o << QueryCall("events_processed", << >>),
                                    QueryCall("current_time", << >>) >> ]

\* the kernel after one spawn or inject call
apply_call(k, c) ==
    IF c.op = "spawn_process"
    THEN Kernel_spawn_process(k, c.args[1], c.args[2], c.args[3])
    ELSE IF c.op = "inject_event"
    THEN Kernel_inject_event(k, c.args[1], c.args[2], c.args[3], c.args[4])
    ELSE k

RECURSIVE apply_calls(_, _)
\* the kernel after a sequence of calls, in order (split in halves to keep
\* the evaluation shallow)
apply_calls(engine, todo) ==
    IF todo = << >> THEN engine
    ELSE IF Len(todo) = 1 THEN apply_call(engine, todo[1])
    ELSE LET h == Len(todo) \div 2
         IN  apply_calls(apply_calls(engine, SubSeq(todo, 1, h)),
                         SubSeq(todo, h + 1, Len(todo)))

(***************************************************************************)
(* Inputs.                                                                 *)
(***************************************************************************)
Origin == Coord(0, 0, 0)
MinI32 == -2147483647 - 1

\* declared coordinates of IR processes: valid ones and one bad axis each
ProcCoords == { Origin, Coord(31, 31, 31), Coord(32, 0, 0), Coord(0, -1, 0),
                Coord(0, 0, 32) }

IrProcess(k, c) == [name |-> << 80, 48 + k >>, coord |-> c]

ProcessLists(cs) ==
    UNION { { [k \in 1..n |-> IrProcess(k, f[k])] : f \in [1..n -> cs] } :
            n \in 0..MaxIrProcs }

TwoEvents == << "Start", "Tick" >>

Constants(rp, mp) ==
    [k \in {n \in {"RUNTIME_PROCESSES"} : rp # None} \cup
           {n \in {"MAX_PROCESSES"} : mp # None} |->
        IF k = "RUNTIME_PROCESSES" THEN unwrap(rp) ELSE unwrap(mp)]

IrProgram(name, processes, events, constants, max_processes) ==
    [ name |-> name, processes |-> processes, events |-> events,
      constants |-> constants,
      resources |-> [ max_processes |-> max_processes,
                      max_events_per_tick |-> 10000,
                      max_coordinate_value |-> CoordMax ] ]

RuntimeProcessesValues ==
    { None, Some(NonInteger("String")), Some(Integer(0)), Some(Integer(-3)),
      Some(Integer(1)), Some(Integer(4)), Some(Integer(11)),
      Some(Integer(KernelHardLimit + 1)) }

MaxProcessesValues ==
    { None, Some(NonInteger("Boolean")), Some(Integer(0)), Some(Integer(3)),
      Some(Integer(KernelHardLimit + 1)) }

\* programs that exercise validate_program
ValidatePrograms ==
    { IrProgram("test_program", ps, TwoEvents, EmptyMap, mx) :
        ps \in ProcessLists(ProcCoords), mx \in {0, 1, DefaultMaxProcesses} }

\* RUNTIME_PROCESSES alone, and MAX_PROCESSES beside a RUNTIME_PROCESSES
\* that is absent or not a positive integer
ConstantPairs ==
    { << rp, None >> : rp \in RuntimeProcessesValues }
    \cup { << rp, mp >> : rp \in { None, Some(NonInteger("String")), Some(Integer(0)),
                                   Some(Integer(-3)) },
                          mp \in MaxProcessesValues }

\* programs that exercise the named constants
ConstantPrograms ==
    { IrProgram("test_program", ps, TwoEvents, Constants(c[1], c[2]), mx) :
        ps \in {<< >>, << IrProcess(1, Origin), IrProcess(2, Origin) >>},
        c \in ConstantPairs, mx \in {3, DefaultMaxProcesses, 2 * KernelHardLimit} }

\* programs for the execution paths
ExecutePrograms ==
    { IrProgram("test_program", << IrProcess(1, Origin) >>, es, Constants(rp, None),
                DefaultMaxProcesses) :
        es \in {<< >>, TwoEvents},
        rp \in {None, Some(Integer(4)), Some(Integer(11))} }

CustomNamed ==
    (<< 112, 49, 48 >> :> Coord(3, 0, 0)) @@ (<< 112, 50 >> :> Coord(1, 1, 1))
    @@ (<< 112, 48 >> :> Coord(0, 2, 0))

CustomWrapped ==
    (<< 97 >> :> Coord(-1, 32, 63)) @@ (<< 98 >> :> Coord(-33, -32, 31))
    @@ (<< 99 >> :> Coord(2147483615, MinI32, 64))

Placements ==
    { SingleNode, GridLayout(1), GridLayout(2), GridLayout(32), GridLayout(-1),
      GridLayout(0),
      Custom(EmptyMap), Custom(CustomNamed), Custom(CustomWrapped) }

BettiConfig(placement, max_events, seed, telemetry_enabled) ==
    [ process_placement |-> placement, max_events |-> max_events, seed |-> seed,
      telemetry_enabled |-> telemetry_enabled, validate_coordinates |-> TRUE ]

\* BettiConfig::default() with another placement
DefaultConfig(placement) == BettiConfig(placement, 1000, 42, TRUE)

\* the default with one of seed, max_events, telemetry_enabled changed
ConfigVariants(placement) ==
    { BettiConfig(placement, 1000, sd, TRUE) : sd \in {0, 1, 42, 123} }
    \cup { BettiConfig(placement, mx, 42, TRUE) : mx \in {-1, 0, 2, 1000} }
    \cup { BettiConfig(placement, 1000, 42, FALSE) }

BackendInputs ==
    { [program |-> p, config |-> DefaultConfig(pl)] :
        p \in ValidatePrograms, pl \in {SingleNode, GridLayout(1), Custom(CustomNamed)} }
    \cup { [program |-> p, config |-> DefaultConfig(pl)] :
        p \in ConstantPrograms, pl \in {GridLayout(1)} }
    \cup UNION { { [program |-> p, config |-> c] : c \in ConfigVariants(pl) } :
        p \in ExecutePrograms, pl \in Placements }

\* wall-clock readings
ExecutionTimes == {10, 20}

NoValue == << >>

(***************************************************************************)
(* State machine.                                                          *)
(***************************************************************************)
Init ==
    /\ pc = "start"
    /\ mode = "none"
    /\ hconfig = NoValue
    /\ program = NoValue
    /\ config = NoValue
    /\ validation = NoValue
    /\ gen = NoValue
    /\ kernel = NoValue
    /\ calls = << >>
    /\ spawned = << >>
    /\ rng = NoValue
    /\ telemetry = NoValue
    /\ grey = NoValue
    /\ runs = << >>
    /\ reference = NoValue
    /\ comparison = NoValue
    /\ failure = NoValue
    /\ printed = << >>
    /\ exit_code = NoValue

\* a test or tool that uses the backend directly: BettiRdlBackend::new(config)
\* on a program, generate_code, then execute twice on the same output
BackendNew ==
    /\ pc = "start"
    /\ \E in \in BackendInputs :
        /\ program' = in.program
        /\ config' = in.config
    /\ mode' = "backend"
    /\ pc' = "generate_code"
    /\ UNCHANGED << hconfig, validation, gen, kernel, calls, spawned, rng,
                    telemetry, grey, runs, reference, comparison, failure, printed,
                    exit_code >>

\* CodeGenerator::generate_code; in the harness an error ends the run
GenerateCode ==
    /\ pc = "generate_code"
    /\ validation' = validate_program(program)
    /\ gen' = generate_code(config, program)
    /\ IF gen'.result.kind = "Ok"
       THEN /\ pc' = "execute"
            /\ UNCHANGED << failure, exit_code >>
       ELSE IF mode = "harness"
            THEN /\ pc' = "failed"
                 /\ failure' = "Betti codegen failed"
                 /\ exit_code' = 1
            ELSE /\ pc' = "done"
                 /\ UNCHANGED << failure, exit_code >>
    /\ UNCHANGED << mode, hconfig, program, config, kernel, calls, spawned,
                    rng, telemetry, grey, runs, reference, comparison, printed >>

\* execute: let mut kernel = betti_rdl::Kernel::new()
ExecuteCreate ==
    /\ pc = "execute"
    /\ kernel' = Kernel_new
    /\ calls' = << CreateCall >>
    /\ spawned' = << >>
    /\ rng' = NoValue
    /\ pc' = "spawn"
    /\ UNCHANGED << mode, hconfig, program, config, validation, gen, telemetry, grey,
                    runs, reference, comparison, failure, printed, exit_code >>

\* execute: self.spawn_processes(&mut kernel, output)
ExecuteSpawn ==
    /\ pc = "spawn"
    /\ LET cs == spawn_coords(unwrap(gen.output))
           issued == [k \in 1..Len(cs) |-> SpawnCall(cs[k])]
       IN  /\ calls' = calls \o issued
           /\ kernel' = apply_calls(kernel, issued)
           /\ spawned' = cs
    /\ pc' = "inject"
    /\ UNCHANGED << mode, hconfig, program, config, validation, gen, rng, telemetry,
                    grey, runs, reference, comparison, failure, printed, exit_code >>

\* execute: self.inject_initial_events(&mut kernel, output, &spawned)
ExecuteInject ==
    /\ pc = "inject"
    /\ LET r == inject_initial_events(config.seed, spawned)
       IN  /\ calls' = calls \o r.calls
           /\ kernel' = apply_calls(kernel, r.calls)
           /\ rng' = [state |-> r.state, draws |-> r.draws]
    /\ pc' = "run"
    /\ UNCHANGED << mode, hconfig, program, config, validation, gen, spawned,
                    telemetry, grey, runs, reference, comparison, failure, printed,
                    exit_code >>

\* the cap execute passes to run
run_cap(output) == output.runtime_config.max_events

ExecuteRun_twice ==
    /\ pc = "run"
    /\ LET cap == run_cap(unwrap(gen.output))
       IN  /\ calls' = calls \o << RunCall(cap), RunCall(cap) >>
           /\ kernel' = Kernel_run(Kernel_run(kernel, cap), cap)
    /\ pc' = "collect"
    /\ UNCHANGED << mode, hconfig, program, config, validation, gen, spawned,
                    rng, telemetry, grey, runs, reference, comparison, failure,
                    printed, exit_code >>

\* execute: kernel.run(output.runtime_config.max_events)
ExecuteRun ==
    /\ pc = "run"
    /\ LET cap == run_cap(unwrap(gen.output))
       IN  /\ calls' = Append(calls, RunCall(cap))
           /\ kernel' = Kernel_run(kernel, cap)
    /\ pc' = "collect"
    /\ UNCHANGED << mode, hconfig, program, config, validation, gen, spawned,
                    rng, telemetry, grey, runs, reference, comparison, failure,
                    printed, exit_code >>

\* execute_grey: the ExecutionResult built from the telemetry
execution_result(hc, output, t, elapsed) ==
    [ seed_used |-> hc.seed, max_events |-> hc.max_events,
      runtime_processes |-> output.metadata.runtime_process_count,
      spacing |-> hc.spacing,
      events_processed |-> t.events_processed, current_time |-> t.current_time,
      execution_time_ns |-> elapsed, process_states |-> t.process_states ]

\* execute: elapsed time, telemetry, return.  The backend test then calls
\* execute once more on the same output; execute_grey builds its result.
ExecuteCollect ==
    /\ pc = "collect"
    /\ \E ns \in ExecutionTimes :
        LET r == collect_telemetry(kernel, spawned, ns, config.telemetry_enabled)
        IN  /\ telemetry' = r.telemetry
            /\ calls' = calls \o r.calls
            /\ runs' = Append(runs, [calls |-> calls', telemetry |-> r.telemetry])
            /\ IF mode = "harness"
               THEN /\ grey' = execution_result(hconfig, unwrap(gen.output), r.telemetry, ns)
                    /\ pc' = "resolve_reference"
               ELSE /\ grey' = grey
                    /\ pc' = IF Len(runs') < 2 THEN "execute" ELSE "done"
    /\ UNCHANGED << mode, hconfig, program, config, validation, gen, kernel,
                    spawned, rng, reference, comparison, failure, printed,
                    exit_code >>

(***************************************************************************)
(* The parity harness: execute_grey, execute_cpp, run_harness, main.       *)
(***************************************************************************)
HarnessConfig(seed, max_events, spacing, override) ==
    [ seed |-> seed, max_events |-> max_events, spacing |-> spacing,
      demo_path |-> "examples/sir_demo.grey", cpp_exe_override |-> override ]

HarnessConfigs ==
    { HarnessConfig(sd, mx, sp, ov) :
        sd \in {42, 0}, mx \in {1000, 2}, sp \in {1, 2},
        ov \in {None, Some("grey_sir_reference")} }

\* what IrBuilder::build_program can hand over: every process at the
\* origin, the default resource bounds, constants from the source
HarnessPrograms ==
    { IrProgram("sir_demo", ps, TwoEvents, Constants(rp, None), DefaultMaxProcesses) :
        ps \in ProcessLists({Origin}),
        rp \in {None, Some(Integer(4)), Some(Integer(KernelHardLimit + 1))} }

NoReference == [ built |-> FALSE, exe |-> None, invoked |-> FALSE, args |-> None,
                 stdout |-> << >>, result |-> None ]

Fail(stage) ==
    /\ pc' = "failed"
    /\ failure' = stage
    /\ exit_code' = 1

\* main: HarnessConfig from the command line, then run_harness
HarnessStart ==
    /\ pc = "start"
    /\ \E hc \in HarnessConfigs : hconfig' = hc
    /\ mode' = "harness"
    /\ reference' = NoReference
    /\ pc' = "read_source"
    /\ UNCHANGED << program, config, validation, gen, kernel, calls, spawned, rng,
                    telemetry, grey, runs, comparison, failure, printed, exit_code >>

\* execute_grey: std::fs::read_to_string(demo_path)
ReadSource ==
    /\ pc = "read_source"
    /\ \/ /\ pc' = "compile"
          /\ UNCHANGED << failure, exit_code >>
       \/ Fail("reading Grey demo")
    /\ UNCHANGED << mode, hconfig, program, config, validation, gen, kernel, calls,
                    spawned, rng, telemetry, grey, runs, reference, comparison,
                    printed >>

\* execute_grey: compile(&source)
CompileSource ==
    /\ pc = "compile"
    /\ \/ /\ pc' = "build_ir"
          /\ UNCHANGED << failure, exit_code >>
       \/ Fail("Grey compilation failed")
    /\ UNCHANGED << mode, hconfig, program, config, validation, gen, kernel, calls,
                    spawned, rng, telemetry, grey, runs, reference, comparison,
                    printed >>

\* execute_grey: builder.build_program, then BettiRdlBackend::new
BuildIR ==
    /\ pc = "build_ir"
    /\ \/ /\ \E p \in HarnessPrograms : program' = p
          /\ config' = BettiConfig(GridLayout(hconfig.spacing), hconfig.max_events,
                                   hconfig.seed, TRUE)
          /\ pc' = "generate_code"
          /\ UNCHANGED << failure, exit_code >>
       \/ /\ Fail("IR build failed")
          /\ UNCHANGED << program, config >>
    /\ UNCHANGED << mode, hconfig, validation, gen, kernel, calls, spawned, rng,
                    telemetry, grey, runs, reference, comparison, printed >>

ResolveReference_retry ==
    /\ pc = "resolve_reference"
    /\ \/ /\ is_some(hconfig.cpp_exe_override)
          /\ reference' = [reference EXCEPT !.exe = hconfig.cpp_exe_override]
          /\ pc' = "invoke_reference"
       \/ /\ ~is_some(hconfig.cpp_exe_override)
          /\ reference' = [reference EXCEPT !.built = TRUE,
                              !.exe = Some("target/cpp_kernel_harness_build/grey_sir_reference")]
          /\ pc' = "invoke_reference"
       \/ /\ ~is_some(hconfig.cpp_exe_override)
          /\ reference' = [reference EXCEPT !.built = TRUE]
          /\ pc' = "resolve_reference"
    /\ UNCHANGED << mode, hconfig, program, config, validation, gen, kernel, calls,
                    spawned, rng, telemetry, grey, runs, comparison, printed,
                    failure, exit_code >>

\* execute_cpp: the override, or build_cpp_reference (cmake configure, cmake
\* build, locate the binary), any failure of which is an error
ResolveReference ==
    /\ pc = "resolve_reference"
    /\ \/ /\ is_some(hconfig.cpp_exe_override)
          /\ reference' = [reference EXCEPT !.exe = hconfig.cpp_exe_override]
          /\ pc' = "invoke_reference"
          /\ UNCHANGED << failure, exit_code >>
       \/ /\ ~is_some(hconfig.cpp_exe_override)
          /\ reference' = [reference EXCEPT !.built = TRUE,
                              !.exe = Some("target/cpp_kernel_harness_build/grey_sir_reference")]
          /\ pc' = "invoke_reference"
          /\ UNCHANGED << failure, exit_code >>
       \/ /\ ~is_some(hconfig.cpp_exe_override)
          /\ reference' = [reference EXCEPT !.built = TRUE]
          /\ \E why \in {"cmake configure failed", "cmake build failed",
                         "built executable not found"} : Fail(why)
    /\ UNCHANGED << mode, hconfig, program, config, validation, gen, kernel, calls,
                    spawned, rng, telemetry, grey, runs, comparison, printed >>

(***************************************************************************)
(* The reference binary's standard output.  A line is kept as whether it   *)
(* has leading blanks, whether its first character after them is '{' and,  *)
(* if it is a JSON object of the CppJsonOutput shape, that object          *)
(* (serde_json skips blanks before the object).  A process_states key is a *)
(* string: a decimal usize or something else.                              *)
(***************************************************************************)
PidKey(pid) == [digits |-> TRUE, pid |-> pid]
BadKey == [digits |-> FALSE, pid |-> 0]

TextLine == [indent |-> FALSE, brace |-> FALSE, json |-> None]
BrokenLine == [indent |-> FALSE, brace |-> TRUE, json |-> None]
JsonLine(o) == [indent |-> FALSE, brace |-> TRUE, json |-> Some(o)]
\* the same line behind leading blanks
Indented(line) == [line EXCEPT !.indent = TRUE]

string_keys(states) == [k \in {PidKey(pid) : pid \in DOMAIN states} |-> states[k.pid]]

CppJson(seed_used, max_events, runtime_processes, spacing, counters, process_states) ==
    [ seed_used |-> seed_used, max_events |-> max_events,
      runtime_processes |-> runtime_processes, spacing |-> spacing,
      events_processed |-> counters[1], current_time |-> counters[2],
      process_states |-> process_states ]

SetMin(S) == CHOOSE m \in S : \A n \in S : m <= n

\* process_states maps a reference run may report, seen from the local one
StateVariants(states) ==
    { states, insert(states, 2 * 32768, 0) }
    \cup { [states EXCEPT ![SetMin(DOMAIN states)] = @ + 1] : k \in {1} \cap
                {n \in {1} : states # EmptyMap} }
    \cup { [q \in DOMAIN states \ {SetMin(DOMAIN states)} |-> states[q]] : k \in {1} \cap
                {n \in {1} : states # EmptyMap} }

\* results a reference run may report, seen from the local result g
ReferenceJsons(g) ==
    { CppJson(g.seed_used + m, g.max_events + m, g.runtime_processes + m,
              g.spacing + m, << g.events_processed + de, g.current_time + dt >>,
              string_keys(ps)) :
        m \in {0, 1}, de \in {0, 1}, dt \in {0, 1}, ps \in StateVariants(g.process_states) }

ExactJson(g) ==
    CppJson(g.seed_used, g.max_events, g.runtime_processes, g.spacing,
            << g.events_processed, g.current_time >>, string_keys(g.process_states))

Stdouts(g) ==
    { << TextLine, JsonLine(o) >> : o \in ReferenceJsons(g) }
    \cup { << >>, << TextLine >>,
           << JsonLine(ExactJson(g)), TextLine >>,
           << JsonLine(ExactJson(g)), BrokenLine >>,
           << BrokenLine, JsonLine(ExactJson(g)), TextLine >>,
           << JsonLine([ExactJson(g) EXCEPT !.events_processed = @ + 1]),
              JsonLine(ExactJson(g)) >>,
           << JsonLine([ExactJson(g) EXCEPT !.events_processed = @ + 1]),
              Indented(JsonLine(ExactJson(g))), Indented(TextLine) >>,
           << JsonLine(ExactJson(g)), Indented(BrokenLine) >>,
           << JsonLine([ExactJson(g) EXCEPT
                           !.process_states = insert(@, BadKey, 0)]) >> }

reference_args_ir_count(hc, g) ==
    [ seed |-> hc.seed, max_events |-> hc.max_events,
      processes |-> Len(program.processes), spacing |-> hc.spacing ]

\* execute_cpp: the arguments of the reference invocation
reference_args(hc, g) ==
    [ seed |-> hc.seed, max_events |-> hc.max_events,
      processes |-> g.runtime_processes, spacing |-> hc.spacing ]

\* execute_cpp: Command::new(&exe)...output(), then the status check
InvokeReference ==
    /\ pc = "invoke_reference"
    /\ \/ /\ \E out \in Stdouts(grey) :
                reference' = [reference EXCEPT !.invoked = TRUE,
                                 !.args = Some(reference_args(hconfig, grey)),
                                 !.stdout = out]
          /\ pc' = "parse_reference"
          /\ UNCHANGED << failure, exit_code >>
       \/ /\ reference' = [reference EXCEPT !.invoked = TRUE,
                              !.args = Some(reference_args(hconfig, grey))]
          /\ Fail("C++ reference exe failed with status")
       \/ /\ UNCHANGED reference
          /\ Fail("running C++ reference exe")
    /\ UNCHANGED << mode, hconfig, program, config, validation, gen, kernel, calls,
                    spawned, rng, telemetry, grey, runs, comparison, printed >>

json_line_first(stdout) ==
    LET braces == {i \in 1..Len(stdout) : stdout[i].brace}
    IN  IF braces = {} THEN None
        ELSE Some(stdout[CHOOSE i \in braces : \A j \in braces : i <= j])

\* stdout.lines().rev().find(|line| line.trim_start().starts_with('{'))
json_line(stdout) ==
    LET braces == {i \in 1..Len(stdout) : stdout[i].brace}
    IN  IF braces = {} THEN None
        ELSE Some(stdout[CHOOSE i \in braces : \A j \in braces : j <= i])

\* for (k, v) in parsed.process_states: insert(k.parse::<usize>()?, v)
parse_pids(states) == [pid \in {k.pid : k \in DOMAIN states} |-> states[PidKey(pid)]]

\* execute_cpp, from the captured stdout to its result
parse_reference(stdout) ==
    LET line == json_line(stdout)
    IN  IF ~is_some(line)
        THEN [error |-> "C++ output did not contain a JSON line", result |-> None]
        ELSE IF ~is_some(unwrap(line).json)
        THEN [error |-> "parsing JSON from C++ output", result |-> None]
        ELSE LET parsed == unwrap(unwrap(line).json)
             IN  IF \E k \in DOMAIN parsed.process_states : ~k.digits
                 THEN [error |-> "invalid pid key in C++ output", result |-> None]
                 ELSE [ error |-> "",
                        result |-> Some(
                          [ seed_used |-> parsed.seed_used,
                            max_events |-> parsed.max_events,
                            runtime_processes |-> parsed.runtime_processes,
                            spacing |-> parsed.spacing,
                            events_processed |-> parsed.events_processed,
                            current_time |-> parsed.current_time,
                            execution_time_ns |-> 0,
                            process_states |-> parse_pids(parsed.process_states) ]) ]

ParseReference ==
    /\ pc = "parse_reference"
    /\ LET r == parse_reference(reference.stdout)
       IN  IF is_some(r.result)
           THEN /\ reference' = [reference EXCEPT !.result = r.result]
                /\ pc' = "compare"
                /\ UNCHANGED << failure, exit_code >>
           ELSE /\ Fail(r.error)
                /\ UNCHANGED reference
    /\ UNCHANGED << mode, hconfig, program, config, validation, gen, kernel, calls,
                    spawned, rng, telemetry, grey, runs, comparison, printed >>

RECURSIVE ascending(_)
\* a BTreeSet<usize> in iteration order
ascending(pids) ==
    IF pids = {} THEN << >>
    ELSE << SetMin(pids) >> \o ascending(pids \ {SetMin(pids)})

\* format!("pid {}: grey={:?} cpp={:?}", pid, g, c)
difference_line(pid, g, c) == [pid |-> pid, grey |-> g, cpp |-> c]

state_differences_local_pids(g, c) ==
    LET pids == ascending(DOMAIN g.process_states)
        all == [k \in 1..Len(pids) |->
                  difference_line(pids[k], get(g.process_states, pids[k]),
                                  get(c.process_states, pids[k]))]
    IN  SelectSeq(all, LAMBDA d : d.grey # d.cpp)

\* run_harness: the per-process differences over the union of the pids
state_differences(g, c) ==
    LET pids == ascending(DOMAIN g.process_states \cup DOMAIN c.process_states)
        all == [k \in 1..Len(pids) |->
                  difference_line(pids[k], get(g.process_states, pids[k]),
                                  get(c.process_states, pids[k]))]
    IN  SelectSeq(all, LAMBDA d : d.grey # d.cpp)

compare_with_metadata(g, c) ==
    LET diffs == state_differences(g, c)
        events_match == g.events_processed = c.events_processed
        current_time_match == g.current_time = c.current_time
    IN  [ grey |-> g, cpp |-> c,
          events_match |-> events_match,
          current_time_match |-> current_time_match,
          state_differences |-> diffs,
          parity_achieved |-> /\ events_match /\ current_time_match /\ diffs = << >>
                              /\ g.runtime_processes = c.runtime_processes
                              /\ g.seed_used = c.seed_used ]

compare_short_circuit(g, c) ==
    LET events_match == g.events_processed = c.events_processed
        current_time_match == g.current_time = c.current_time
        diffs == IF events_match /\ current_time_match
                 THEN state_differences(g, c) ELSE << >>
    IN  [ grey |-> g, cpp |-> c,
          events_match |-> events_match,
          current_time_match |-> current_time_match,
          state_differences |-> diffs,
          parity_achieved |-> events_match /\ current_time_match /\ diffs = << >> ]

\* run_harness, after both runs returned
compare(g, c) ==
    LET diffs == state_differences(g, c)
        events_match == g.events_processed = c.events_processed
        current_time_match == g.current_time = c.current_time
    IN  [ grey |-> g, cpp |-> c,
          events_match |-> events_match,
          current_time_match |-> current_time_match,
          state_differences |-> diffs,
          parity_achieved |-> events_match /\ current_time_match /\ diffs = << >> ]

Compare ==
    /\ pc = "compare"
    /\ comparison' = compare(grey, unwrap(reference.result))
    /\ pc' = "report"
    /\ UNCHANGED << mode, hconfig, program, config, validation, gen, kernel, calls,
                    spawned, rng, telemetry, grey, runs, reference, failure, printed,
                    exit_code >>

\* print_summary
print_summary(result) ==
    << [line |-> "Grey", events_processed |-> result.grey.events_processed,
        current_time |-> result.grey.current_time,
        runtime_processes |-> result.grey.runtime_processes],
       [line |-> "C++", events_processed |-> result.cpp.events_processed,
        current_time |-> result.cpp.current_time,
        runtime_processes |-> result.cpp.runtime_processes] >>
    \o IF result.parity_achieved THEN << "PARITY: OK" >>
       ELSE << "PARITY: FAILED" >> \o result.state_differences

Report ==
    /\ pc = "report"
    /\ printed' = print_summary(comparison)
    /\ pc' = "exit"
    /\ UNCHANGED << mode, hconfig, program, config, validation, gen, kernel, calls,
                    spawned, rng, telemetry, grey, runs, reference, comparison,
                    failure, exit_code >>

Exit_always_zero ==
    /\ pc = "exit"
    /\ exit_code' = 0
    /\ pc' = "exited"
    /\ UNCHANGED << mode, hconfig, program, config, validation, gen, kernel, calls,
                    spawned, rng, telemetry, grey, runs, reference, comparison,
                    failure, printed >>

\* main: if !result.parity_achieved { std::process::exit(1) }; Ok(())
Exit ==
    /\ pc = "exit"
    /\ exit_code' = IF comparison.parity_achieved THEN 0 ELSE 1
    /\ pc' = "exited"
    /\ UNCHANGED << mode, hconfig, program, config, validation, gen, kernel, calls,
                    spawned, rng, telemetry, grey, runs, reference, comparison,
                    failure, printed >>

Next ==
    \/ BackendNew
    \/ GenerateCode
    \/ ExecuteCreate
    \/ ExecuteSpawn
    \/ ExecuteInject
    \/ ExecuteRun
    \/ ExecuteCollect
    \/ HarnessStart
    \/ ReadSource
    \/ CompileSource
    \/ BuildIR
    \/ ResolveReference
    \/ InvokeReference
    \/ ParseReference
    \/ Compare
    \/ Report
    \/ Exit

Spec == Init /\ [][Next]_vars

(***************************************************************************)
(* Properties.                                                             *)
(***************************************************************************)
\* a variable that has been assigned a record
HasValue(v) == DOMAIN v # {}

\* the calls of a log with a given operation, in order
calls_of(log, op) == SelectSeq(log, LAMBDA c : c.op = op)

\* C1: generate_code returns a ValidationError and no output whenever the
\* resolved runtime process count exceeds resources.max_processes, and also
\* whenever it exceeds 2048 even if max_processes is larger; every
\* successful generate_code has a runtime process count of at most
\* min(max_processes, 2048).
C1_ProcessCountLimits ==
    HasValue(gen) =>
        LET rpc == runtime_process_count(config.process_placement, program)
            limit == Min(program.resources.max_processes, KernelHardLimit)
        IN  /\ (rpc > program.resources.max_processes \/ rpc > KernelHardLimit)
                  => (gen.result.kind = "ValidationError" /\ gen.output = None)
            /\ gen.result.kind = "Ok"
                  => /\ is_some(gen.output)
                     /\ unwrap(gen.output).metadata.runtime_process_count <= limit

\* a count above 2048 rejected although max_processes would allow it
C1_Witness ==
    /\ HasValue(gen)
    /\ validation.kind = "Ok"
    /\ runtime_process_count(config.process_placement, program) > KernelHardLimit
    /\ program.resources.max_processes > KernelHardLimit
    /\ gen.result.kind = "ValidationError"

\* C2: the comparison of run_harness has parity_achieved exactly when the
\* local and the reference run have equal events_processed, equal
\* current_time and the same process_states map; events_match and
\* current_time_match are the two field equalities.
C2_ParityIff ==
    pc \in {"report", "exit", "exited"} =>
        LET g == comparison.grey
            c == comparison.cpp
        IN  /\ g = grey
            /\ c = unwrap(reference.result)
            /\ comparison.events_match = (g.events_processed = c.events_processed)
            /\ comparison.current_time_match = (g.current_time = c.current_time)
            /\ comparison.parity_achieved =
                  (/\ g.events_processed = c.events_processed
                   /\ g.current_time = c.current_time
                   /\ g.process_states = c.process_states)

\* the counters agree and the reference reports a process the local run
\* does not have: no parity
C2_Witness ==
    /\ pc = "report"
    /\ comparison.events_match
    /\ comparison.current_time_match
    /\ DOMAIN comparison.cpp.process_states # DOMAIN comparison.grey.process_states
    /\ \A q \in DOMAIN comparison.grey.process_states :
          /\ q \in DOMAIN comparison.cpp.process_states
          /\ comparison.cpp.process_states[q] = comparison.grey.process_states[q]
    /\ ~comparison.parity_achieved

\* C3: two calls of execute on the same output under the same configuration
\* issue the same sequence of engine calls (spawns, injections, run cap) and
\* report the same events_processed.
C3_Deterministic ==
    (mode = "backend" /\ Len(runs) = 2) =>
        /\ runs[1].calls = runs[2].calls
        /\ runs[1].telemetry.events_processed = runs[2].telemetry.events_processed

\* two completed runs over several processes with injections delivered, whose
\* wall-clock readings differ
C3_Witness ==
    /\ mode = "backend"
    /\ Len(runs) = 2
    /\ Len(calls_of(runs[1].calls, "spawn_process")) >= 3
    /\ Len(calls_of(runs[1].calls, "inject_event")) >= 3
    /\ runs[1].telemetry.events_processed > 0
    /\ runs[1].telemetry.execution_time_ns # runs[2].telemetry.execution_time_ns

\* the place of an engine operation in an execute call
phase(op) ==
    CASE op = "create" -> 0
      [] op = "spawn_process" -> 1
      [] op = "inject_event" -> 2
      [] op = "run" -> 3
      [] op \in Queries -> 4

\* a call log in the order create, spawns, injections, run, queries
in_order(log) ==
    /\ \A i, j \in 1..Len(log) : i < j => phase(log[i].op) <= phase(log[j].op)
    /\ Len(log) >= 1 => log[1] = CreateCall
    /\ Len(calls_of(log, "create")) <= 1
    /\ Len(calls_of(log, "run")) <= 1
    /\ \A i \in 1..Len(log) :
          log[i].op \in Queries => \E j \in 1..(i - 1) : log[j].op = "run"

\* C4: in every execute call the engine operations occur in the order
\* create, all spawns, all injections, exactly one run, then the read-only
\* queries: no spawn after an injection, no injection after run, no query
\* before run.
C4_CallOrder ==
    /\ in_order(calls)
    /\ \A k \in 1..Len(runs) :
          /\ in_order(runs[k].calls)
          /\ Len(calls_of(runs[k].calls, "create")) = 1
          /\ Len(calls_of(runs[k].calls, "run")) = 1

\* a finished execute with spawns, injections, the run and process_state
\* queries
C4_Witness ==
    /\ Len(runs) >= 1
    /\ Len(calls_of(runs[1].calls, "spawn_process")) >= 2
    /\ Len(calls_of(runs[1].calls, "inject_event")) >= 2
    /\ Len(calls_of(runs[1].calls, "process_state")) >= 2
    /\ Len(calls_of(runs[1].calls, "events_processed")) = 1

\* C5: for n >= 1 spawned coordinates inject_initial_events issues
\* min(4, n) injections and consumes 2 * min(4, n) draws of the generator
\* seeded from the configuration; the j-th injection targets the coordinate
\* at index (draw 2j-1) mod n with the value ((draw 2j) mod 5) + 1, which
\* lies in 1..5; injections are issued in draw order.
C5_Injections ==
    (pc = "run" /\ Len(spawned) >= 1) =>
        LET n == Len(spawned)
            k == Min(MaxInjections, n)
            injects == calls_of(calls, "inject_event")
            draws == rng.draws
        IN  /\ Len(injects) = k
            /\ Len(draws) = 2 * k
            /\ draws[1] = next_u64(ToWord(Max(config.seed, 1)))
            /\ \A d \in 2..Len(draws) : draws[d] = next_u64(draws[d - 1])
            /\ \A j \in 1..k :
                  LET idx == word_mod(draws[2 * j - 1], n)
                      value == word_mod(draws[2 * j], ValueModulus) + 1
                  IN  /\ value \in 1..5
                      /\ idx \in 0..(n - 1)
                      /\ injects[j].args = << spawned[idx + 1].x, spawned[idx + 1].y,
                                              spawned[idx + 1].z, value >>

\* more processes than injections: four injections from eight draws, not
\* all at one target and not all of one value
C5_Witness ==
    /\ pc = "run"
    /\ Len(spawned) > MaxInjections
    /\ Len(rng.draws) = 2 * MaxInjections
    /\ Cardinality({calls[i].args : i \in {h \in 1..Len(calls) :
                                               calls[h].op = "inject_event"}}) >= 3

\* the least positive g with g * g >= n
least_square_side(n) == CHOOSE g \in 1..n : g * g >= n /\ \A h \in 1..(g - 1) : h * h < n

\* the coordinate the grid rule gives index i
grid_rule(i, n, spacing) ==
    LET g == least_square_side(n)
    IN  Coord((i % g) * spacing, (i \div g) * spacing, 0)

\* C6: under GridLayout{spacing} with runtime process count n, the process
\* of index i, named p{i}, is placed at x = (i mod g) * spacing,
\* y = (i div g) * spacing, z = 0 with g the least positive integer whose
\* square is at least n, in the generated artifact and in the spawn calls;
\* n = 4 and spacing = 2 give (0,0,0), (2,0,0), (0,2,0), (2,2,0).
C6_GridPlacement ==
    (HasValue(gen) /\ gen.result.kind = "Ok"
        /\ config.process_placement.kind = "GridLayout") =>
        LET out == unwrap(gen.output)
            n == out.metadata.runtime_process_count
            spacing == config.process_placement.spacing
            entries == out.files[<< program.name, "_betti.rs" >>].body.process_entries
        IN  /\ n >= 1
            /\ Len(entries) = n
            /\ \A i \in 0..(n - 1) :
                  \E e \in 1..n : /\ entries[e].name = PName(i)
                                  /\ entries[e].coord = grid_rule(i, n, spacing)
            /\ spawned # << >> =>
                  /\ Len(spawned) = n
                  /\ \A i \in 0..(n - 1) : spawned[i + 1] = grid_rule(i, n, spacing)
                  /\ (n = 4 /\ spacing = 2) =>
                        spawned = << Coord(0, 0, 0), Coord(2, 0, 0),
                                     Coord(0, 2, 0), Coord(2, 2, 0) >>

\* the example: four processes spawned on a grid of spacing 2
C6_Witness ==
    /\ HasValue(gen)
    /\ gen.result.kind = "Ok"
    /\ config.process_placement = GridLayout(2)
    /\ unwrap(gen.output).metadata.runtime_process_count = 4
    /\ Len(spawned) = 4
    /\ spawned[4] = Coord(2, 2, 0)

\* a constant that holds a positive integer
is_positive_integer(o) == is_some(o) /\ unwrap(o).tag = "Integer" /\ unwrap(o).i > 0

\* C7: under GridLayout the runtime process count is the first positive
\* integer among the constants RUNTIME_PROCESSES and MAX_PROCESSES, in that
\* order (a RUNTIME_PROCESSES that is present but not a positive integer is
\* passed over for a positive-integer MAX_PROCESSES), and max(1, number of
\* IR processes) only when neither is a positive integer.
C7_FirstPositiveInteger ==
    (HasValue(gen) /\ gen.result.kind = "Ok"
        /\ config.process_placement.kind = "GridLayout") =>
        LET rp == get(program.constants, "RUNTIME_PROCESSES")
            mp == get(program.constants, "MAX_PROCESSES")
            expected == IF is_positive_integer(rp) THEN unwrap(rp).i
                        ELSE IF is_positive_integer(mp) THEN unwrap(mp).i
                        ELSE Max(1, Len(program.processes))
        IN  unwrap(gen.output).metadata.runtime_process_count = expected

\* C8: whenever generate_code returns ValidationError there is no output
\* (no generated file, no metadata), the engine is never created, no spawn,
\* inject or run call is issued, and in the harness the reference binary is
\* neither built nor invoked.
C8_ValidationStops ==
    (HasValue(gen) /\ gen.result.kind = "ValidationError") =>
        /\ gen.output = None
        /\ ~HasValue(kernel)
        /\ calls = << >>
        /\ runs = << >>
        /\ ~HasValue(telemetry)
        /\ mode = "harness" =>
              /\ ~reference.built
              /\ ~reference.invoked
              /\ reference.exe = None
              /\ pc = "failed"
              /\ ~HasValue(grey)

\* a harness run ended by a validation failure of its generated program
C8_Witness ==
    /\ mode = "harness"
    /\ pc = "failed"
    /\ HasValue(gen)
    /\ gen.result.kind = "ValidationError"
    /\ ~is_some(hconfig.cpp_exe_override)

\* ((v mod 32) + 32) mod 32
torus_wrap(v) == ((v % TorusSize) + TorusSize) % TorusSize

MaxI32 == 2147483647

\* C9: node_id(x,y,z) = wrap(x)*1024 + wrap(y)*32 + wrap(z) with
\* wrap(v) = ((v mod 32) + 32) mod 32 in 0..31, also for negative v; adding
\* 32 to one axis, where representable, leaves the node id unchanged, and
\* the node id lies in 0..32767.  The ids queried for the spawned
\* coordinates are these.
C9_NodeId ==
    \A k \in 1..Len(spawned) :
        LET c == spawned[k]
            id == node_id(c)
        IN  /\ torus_wrap(c.x) \in 0..31
            /\ torus_wrap(c.y) \in 0..31
            /\ torus_wrap(c.z) \in 0..31
            /\ id = torus_wrap(c.x) * 1024 + torus_wrap(c.y) * 32 + torus_wrap(c.z)
            /\ id \in 0..32767
            /\ c.x <= MaxI32 - 32 => node_id(Coord(c.x + 32, c.y, c.z)) = id
            /\ c.y <= MaxI32 - 32 => node_id(Coord(c.x, c.y + 32, c.z)) = id
            /\ c.z <= MaxI32 - 32 => node_id(Coord(c.x, c.y, c.z + 32)) = id
            /\ (HasValue(telemetry) /\ config.telemetry_enabled /\ pc # "collect")
                  => id \in DOMAIN telemetry.process_states

\* the states of processes spawned at negative and at far coordinates have
\* been collected under their node ids
C9_Witness ==
    /\ HasValue(telemetry)
    /\ pc = "done"
    /\ \E k \in 1..Len(spawned) : spawned[k].x < 0 /\ spawned[k].y >= TorusSize
    /\ \E k \in 1..Len(spawned) : spawned[k].y = MinI32
    /\ \A k \in 1..Len(spawned) : node_id(spawned[k]) \in DOMAIN telemetry.process_states

\* C10: validate_program returns ValidationError exactly when some IR
\* process has a coordinate with an axis outside [0,31] or the number of IR
\* processes exceeds resources.max_processes, and Ok otherwise; the program
\* is left unchanged.
C10_ValidateProgram ==
    /\ [](HasValue(validation) =>
            LET bad_coord == \E i \in 1..Len(program.processes) :
                                \E v \in { program.processes[i].coord.x,
                                           program.processes[i].coord.y,
                                           program.processes[i].coord.z } :
                                    v < 0 \/ v > 31
                too_many == Len(program.processes) > program.resources.max_processes
            IN  /\ validation.kind \in {"Ok", "ValidationError"}
                /\ (validation.kind = "ValidationError") = (bad_coord \/ too_many))
    /\ [][pc = "generate_code" => program' = program]_vars

\* a program within its process bound rejected for a coordinate
C10_Witness ==
    /\ HasValue(validation)
    /\ validation.kind = "ValidationError"
    /\ Len(program.processes) <= program.resources.max_processes
    /\ \E i \in 1..Len(program.processes) : program.processes[i].coord.y < 0

\* generate_code succeeded
generated == HasValue(gen) /\ gen.result.kind = "Ok"

\* the placement generate_code produced, as the coordinate table of the
\* executable artifact
placed_entries ==
    unwrap(gen.output).files[<< program.name, "_betti.rs" >>].body.process_entries

\* C11: for every process count n >= 1 and every spacing s, GridLayout{s}
\* produces n pairwise distinct coordinates, all with z = 0, whose unscaled
\* column and row lie in 0..g-1 for g = ceil(sqrt(n)).
C11_GridDistinct ==
    (generated /\ config.process_placement.kind = "GridLayout") =>
        LET n == unwrap(gen.output).metadata.runtime_process_count
            s == config.process_placement.spacing
            g == least_square_side(n)
        IN  /\ Len(placed_entries) = n
            /\ \A a, b \in 1..n :
                  a # b => placed_entries[a].coord # placed_entries[b].coord
            /\ \A a \in 1..n :
                  /\ placed_entries[a].coord.z = 0
                  /\ \E col, row \in 0..(g - 1) :
                        placed_entries[a].coord = Coord(col * s, row * s, 0)

\* execute has returned and no later execute call has started
execute_returned == HasValue(telemetry) /\ pc \notin {"spawn", "inject", "run", "collect"}

\* C12: with telemetry enabled the process_states map returned by execute
\* has one entry per spawned process, so its size is
\* metadata.runtime_process_count, and its keys are the node ids of the
\* placed coordinates.
C12_OneStatePerProcess ==
    (execute_returned /\ config.telemetry_enabled) =>
        /\ DOMAIN telemetry.process_states = {node_id(spawned[k]) : k \in 1..Len(spawned)}
        /\ Cardinality(DOMAIN telemetry.process_states) = Len(spawned)
        /\ Cardinality(DOMAIN telemetry.process_states)
              = unwrap(gen.output).metadata.runtime_process_count

\* C13: execute never asks the engine for uncapped execution: the cap
\* passed to run is the configured max_events when that is positive, and
\* the program's own event count when it is 0 or negative.
C13_RunCap ==
    \A i \in 1..Len(calls) :
        calls[i].op = "run" =>
            calls[i].args = << IF config.max_events > 0 THEN config.max_events
                               ELSE Len(program.events) >>

\* the coordinate a spawn call names
spawn_target(c) == Coord(c.args[1], c.args[2], c.args[3])

\* the coordinate the placement gives a process name
placed_at(nm) ==
    LET e == CHOOSE e \in 1..Len(placed_entries) : placed_entries[e].name = nm
    IN  placed_entries[e].coord

\* the k-th name of a set of names in ascending lexicographic order
kth_name(names, k) ==
    CHOOSE nm \in names : Cardinality({o \in names : str_lt(o, nm)}) = k - 1

\* the spawn calls of a log follow the placement in the resolver's order
spawns_follow_placement(log) ==
    LET spawns == calls_of(log, "spawn_process")
        placement == config.process_placement
        names == {placed_entries[e].name : e \in 1..Len(placed_entries)}
    IN  /\ Len(spawns) = Len(placed_entries)
        /\ Cardinality(names) = Len(placed_entries)
        /\ placement.kind = "GridLayout" =>
              \A k \in 1..Len(spawns) : spawn_target(spawns[k]) = placed_at(PName(k - 1))
        /\ placement.kind = "Custom" =>
              /\ names = DOMAIN placement.coords
              /\ \A k \in 1..Len(spawns) :
                    /\ spawn_target(spawns[k]) = placement.coords[kth_name(names, k)]
                    /\ placed_at(kth_name(names, k)) = placement.coords[kth_name(names, k)]
        /\ placement.kind = "SingleNode" =>
              \A k \in 1..Len(spawns) : spawn_target(spawns[k]) = placed_at(PName(0))

\* C14: execute spawns every coordinate of the placement produced by
\* generate_code exactly once and in the resolver's order: index order for
\* GridLayout, ascending lexicographic order of the names for a Custom map,
\* whose coordinates are used unchanged; there are as many spawn calls as
\* entries of the placement map.
C14_SpawnOrder ==
    /\ (generated /\ pc \in {"inject", "run", "collect"}) => spawns_follow_placement(calls)
    /\ generated => \A r \in 1..Len(runs) : spawns_follow_placement(runs[r].calls)

\* a Custom map whose name order differs from its numeric order, spawned
C14_Witness ==
    /\ generated
    /\ pc = "inject"
    /\ config.process_placement = Custom(CustomNamed)
    /\ spawned = << Coord(0, 2, 0), Coord(3, 0, 0), Coord(1, 1, 1) >>

\* C15: state_differences holds exactly one line for every process id of
\* the union of the local and reference process_states keys at which the
\* two optional states differ (ids on one side only included), none for an
\* id where they are equal, whether or not events_processed or
\* current_time already differ.
C15_StateDifferences ==
    pc \in {"report", "exit", "exited"} =>
        LET g == comparison.grey.process_states
            c == comparison.cpp.process_states
            lines == comparison.state_differences
            differing == {pid \in DOMAIN g \cup DOMAIN c : get(g, pid) # get(c, pid)}
        IN  /\ Len(lines) = Cardinality(differing)
            /\ {lines[k].pid : k \in 1..Len(lines)} = differing
            /\ \A k \in 1..Len(lines) :
                  /\ lines[k].grey = get(g, lines[k].pid)
                  /\ lines[k].cpp = get(c, lines[k].pid)

\* both counters differ and the difference list still names a process
\* that only the reference reports
C15_Witness ==
    /\ pc = "report"
    /\ ~comparison.events_match
    /\ ~comparison.current_time_match
    /\ \E k \in 1..Len(comparison.state_differences) :
          /\ comparison.state_differences[k].grey = None
          /\ comparison.state_differences[k].cpp # None

\* the stages of a harness run, in order
HarnessStages ==
    << "start", "read_source", "compile", "build_ir", "generate_code", "execute",
       "spawn", "inject", "run", "collect", "resolve_reference", "invoke_reference",
       "parse_reference", "compare", "report", "exit", "exited" >>

stage_index(p) == CHOOSE i \in 1..Len(HarnessStages) : HarnessStages[i] = p

\* C16: a harness run passes through its stages in the fixed order compile,
\* build IR, validate and place, inject and run, collect telemetry, resolve
\* the reference binary, invoke it, parse its output, compare, report; each
\* stage runs at most once, a failure in a stage ends the run with an error
\* before any later stage, and a ComparisonResult exists only if every
\* stage succeeded.
C16_StageOrder ==
    /\ [][mode' = "harness" =>
            \/ /\ pc # "failed"
               /\ pc' = "failed"
               /\ exit_code' = 1
               /\ comparison' = comparison
               /\ grey' = grey
               /\ calls' = calls
               /\ reference'.result = reference.result
            \/ /\ pc # "failed"
               /\ pc' # "failed"
               /\ stage_index(pc') = stage_index(pc) + 1]_vars
    /\ []((mode = "harness" /\ HasValue(comparison)) =>
            /\ pc \in {"report", "exit", "exited"}
            /\ generated
            /\ HasValue(grey)
            /\ reference.invoked
            /\ is_some(reference.result))
    /\ []((mode = "harness" /\ pc = "failed") => ~HasValue(comparison))

\* a harness run that went through every stage and exited
C16_Witness ==
    /\ mode = "harness"
    /\ pc = "exited"
    /\ HasValue(comparison)
    /\ reference.built
    /\ exit_code = 0

\* the validator artifact generate_code produced
validator == unwrap(gen.output).files[<< program.name, "_validation.rs" >>].body

\* C17: for every placement strategy the validator artifact's
\* expected_processes is the resolved runtime process count of
\* metadata.runtime_process_count, and its expected_events is the number of
\* IR events.
C17_ValidatorExpectations ==
    generated =>
        /\ validator.expected_processes
              = unwrap(gen.output).metadata.runtime_process_count
        /\ validator.expected_events = Len(program.events)

\* generate_code was asked for an empty Custom map while the program declares
\* at least one process
empty_custom_map ==
    /\ HasValue(gen)
    /\ config.process_placement.kind = "Custom"
    /\ DOMAIN config.process_placement.coords = {}
    /\ Len(program.processes) >= 1

\* C18: when the inputs make the emitted template inconsistent, as with an
\* empty Custom placement map while at least one process is expected,
\* generate_code fails with CodegenFailed and returns no artifact.
C18_CodegenFailed ==
    empty_custom_map =>
        /\ gen.result.kind = "CodegenFailed"
        /\ ~is_some(gen.output)

\* the executable artifact generate_code produced
executable == unwrap(gen.output).files[<< program.name, "_betti.rs" >>].body

\* the placement generate_code resolved for the generated program
resolved_placement ==
    placement_coords(config.process_placement,
                     unwrap(gen.output).metadata.runtime_process_count)

\* entries name each placed process once, with its coordinate, in strictly
\* ascending order of name
ascending_by_name(entries, process_coords) ==
    /\ Len(entries) = Cardinality(DOMAIN process_coords)
    /\ {entries[k].name : k \in 1..Len(entries)} = DOMAIN process_coords
    /\ \A k \in 1..Len(entries) : entries[k].coord = process_coords[entries[k].name]
    /\ \A k \in 1..(Len(entries) - 1) : str_lt(entries[k].name, entries[k + 1].name)

\* C19: in the executable artifact the coordinate-table entries and the spawn
\* calls each list every placed process once, in strictly ascending
\* lexicographic order of process name.  The names are distinct, so exactly
\* one sequence satisfies this for a given placement: what generate_code
\* emits does not depend on the order the map iterates in, and two calls on
\* the same inputs emit the same two sequences.
C19_SortedEntries ==
    generated =>
        /\ ascending_by_name(executable.process_entries, resolved_placement)
        /\ ascending_by_name(executable.spawn_entries, resolved_placement)
        /\ executable.spawn_entries = executable.process_entries

\* a generated artifact whose names sort differently by text and by number:
\* "p10" is emitted between "p0" and "p2"
C19_Witness ==
    /\ generated
    /\ Len(executable.spawn_entries) >= 3
    /\ \E k \in 1..(Len(executable.spawn_entries) - 1) :
          /\ executable.spawn_entries[k].name = PName(10)
          /\ executable.spawn_entries[k + 1].name = PName(2)

\* how many next_u64 steps past the seed the generator is followed
StepBound == 16

RECURSIVE steps(_, _)
\* the generator state after n calls of next_u64
steps(state, n) == IF n = 0 THEN state ELSE next_u64(steps(state, n - 1))

\* C20: the injector's generator starts at max(1, seed), so a run under seed
\* 0 draws the same words and issues the same injections as a run under seed
\* 1 on the same coordinates; the state is not zero at construction, after
\* any of the draws of the injection loop, or after any of the first
\* StepBound steps.
C20_SeedFloor ==
    (pc = "run" /\ Len(spawned) >= 1) =>
        /\ XorShift64_new(config.seed) = ToWord(Max(1, config.seed))
        /\ rng.state # ToWord(0)
        /\ \A d \in 1..Len(rng.draws) : rng.draws[d] # ToWord(0)
        /\ \A n \in 0..StepBound : steps(XorShift64_new(config.seed), n) # ToWord(0)
        /\ config.seed = 0 =>
              LET one == inject_initial_events(1, spawned)
              IN  /\ rng.draws = one.draws
                  /\ rng.state = one.state
                  /\ calls_of(calls, "inject_event") = one.calls

\* a run under seed 0 over more than four processes, after its four
\* injections and eight draws
C20_Witness ==
    /\ pc = "run"
    /\ config.seed = 0
    /\ Len(spawned) > MaxInjections
    /\ Len(rng.draws) = 2 * MaxInjections
    /\ Len(calls_of(calls, "inject_event")) = MaxInjections

\* the reference binary has been started
reference_invoked == mode = "harness" /\ HasValue(reference) /\ reference.invoked

\* the local run of the harness has returned its result
local_run_completed ==
    /\ HasValue(grey)
    /\ Len(runs) = 1
    /\ grey.events_processed = runs[1].telemetry.events_processed
    /\ pc \notin {"start", "read_source", "compile", "build_ir", "generate_code",
                  "execute", "spawn", "inject", "run", "collect"}

\* C21: the reference binary is invoked only after the local run has
\* completed, with --processes equal to the runtime process count the local
\* run resolved and --seed, --max-events and --spacing equal to the harness
\* configuration; when it exits with a non-zero status the harness fails
\* and no comparison is made.
C21_ReferenceInvocation ==
    /\ [][(mode' = "harness" /\ HasValue(reference') /\ reference'.invoked
             /\ ~reference_invoked)
            => (pc = "invoke_reference" /\ local_run_completed)]_vars
    /\ [](reference_invoked =>
            /\ local_run_completed
            /\ unwrap(reference.args) =
                  [ seed |-> hconfig.seed, max_events |-> hconfig.max_events,
                    processes |-> unwrap(gen.output).metadata.runtime_process_count,
                    spacing |-> hconfig.spacing ])
    /\ []((pc = "failed" /\ failure = "C++ reference exe failed with status")
            => /\ reference_invoked
               /\ exit_code = 1
               /\ ~HasValue(comparison)
               /\ ~is_some(reference.result))

\* the reference exited with a failure status after being started with a
\* process count that is neither the IR process count nor 1
C21_Witness ==
    /\ reference_invoked
    /\ pc = "failed"
    /\ failure = "C++ reference exe failed with status"
    /\ unwrap(reference.args).processes = 4
    /\ Len(program.processes) # 4
    /\ unwrap(reference.args).spacing = 2

\* the lines of a captured stdout whose first character is '{'
begins_with_brace(stdout) ==
    {i \in 1..Len(stdout) : stdout[i].brace /\ ~stdout[i].indent}

\* the lines whose first character after leading blanks is '{'
brace_after_blanks(stdout) == {i \in 1..Len(stdout) : stdout[i].brace}

\* the errors of the parse stage
ParseErrors ==
    { "C++ output did not contain a JSON line", "parsing JSON from C++ output",
      "invalid pid key in C++ output" }

\* the result carries the fields of the object o, keyed by parsed pid
result_of_object(result, o) ==
    /\ result.seed_used = o.seed_used
    /\ result.max_events = o.max_events
    /\ result.runtime_processes = o.runtime_processes
    /\ result.spacing = o.spacing
    /\ result.events_processed = o.events_processed
    /\ result.current_time = o.current_time
    /\ DOMAIN result.process_states = {k.pid : k \in DOMAIN o.process_states}
    /\ \A k \in DOMAIN o.process_states : result.process_states[k.pid] = o.process_states[k]

\* the parse stage's outcome is settled by the last of the candidate lines
\* alone: a result when that line is a valid object with unsigned integer
\* keys, carrying exactly its fields, and otherwise an error with neither a
\* result nor a comparison
parsed_from_last(candidates) ==
    LET usable ==
            /\ candidates # {}
            /\ LET line == reference.stdout[CHOOSE i \in candidates :
                                               \A j \in candidates : j <= i]
               IN  /\ is_some(line.json)
                   /\ \A k \in DOMAIN unwrap(line.json).process_states : k.digits
        object ==
            unwrap(reference.stdout[CHOOSE i \in candidates :
                                       \A j \in candidates : j <= i].json)
    IN  /\ (mode = "harness" /\ pc \in {"compare", "report", "exit", "exited"})
              => /\ usable
                 /\ is_some(reference.result)
                 /\ result_of_object(unwrap(reference.result), object)
        /\ (pc = "failed" /\ failure \in ParseErrors)
              => /\ ~usable
                 /\ ~is_some(reference.result)
                 /\ ~HasValue(comparison)

\* C22 as stated: the reference result is parsed from the last line of the
\* captured stdout that begins with '{', later lines and earlier '{' lines
\* being ignored; with no such line, an invalid object on it or a
\* process_states key that is not an unsigned integer the harness fails.
C22_LastBraceLine == parsed_from_last(begins_with_brace(reference.stdout))

\* C22 amended: the line is the last one whose first character after
\* leading blanks is '{'.
C22_LastBraceLineAfterBlanks == parsed_from_last(brace_after_blanks(reference.stdout))

\* a result parsed from an indented object line that follows a different
\* object line and precedes a line that is not a candidate
C22_Witness ==
    /\ mode = "harness"
    /\ pc = "compare"
    /\ Cardinality(brace_after_blanks(reference.stdout)) = 2
    /\ Len(reference.stdout) = 3
    /\ reference.stdout[2].indent
    /\ reference.stdout[1].json # reference.stdout[2].json

\* every state_differences line of the comparison is on stdout, in order,
\* after the failure banner
differences_printed ==
    /\ Len(printed) = 3 + Len(comparison.state_differences)
    /\ printed[3] = "PARITY: FAILED"
    /\ \A k \in 1..Len(comparison.state_differences) :
          printed[3 + k] = comparison.state_differences[k]

\* C23: the harness process exits with code 0 exactly when the run
\* completed and parity_achieved is true; when the comparison completes
\* without parity the exit code is 1 and every state_differences line was
\* printed before the exit; a failed stage ends in a non-zero exit.
C23_ExitCode ==
    mode = "harness" =>
        /\ pc = "exited" =>
              /\ HasValue(comparison)
              /\ exit_code \in {0, 1}
              /\ exit_code = 0 <=> comparison.parity_achieved
              /\ ~comparison.parity_achieved => (exit_code = 1 /\ differences_printed)
        /\ pc = "exit" =>
              /\ ~comparison.parity_achieved => differences_printed
              /\ comparison.parity_achieved => printed[Len(printed)] = "PARITY: OK"
        /\ pc = "failed" => (exit_code = 1 /\ ~HasValue(comparison))
        /\ pc \notin {"exited", "failed"} => exit_code = NoValue

\* the harness exited with code 1 after printing the difference line of a
\* comparison whose counters matched
C23_Witness ==
    /\ mode = "harness"
    /\ pc = "exited"
    /\ exit_code = 1
    /\ comparison.events_match
    /\ comparison.current_time_match
    /\ Len(comparison.state_differences) >= 1
    /\ differences_printed

\* axis values at and around the two ends of the valid range, and the ends
\* of i32
AxisSamples == {MinI32, -1, 0, 15, 31, 32, MaxI32}

\* every axis lies in 0..31 inclusive
in_box(c) ==
    /\ 0 <= c.x /\ c.x <= 31
    /\ 0 <= c.y /\ c.y <= 31
    /\ 0 <= c.z /\ c.z <= 31

\* some axis is below 0 or above 31
axis_outside(c) == \E v \in {c.x, c.y, c.z} : v < 0 \/ v > 31

\* C24: Coord::is_valid is true exactly for the coordinates whose three axes
\* all lie in 0..31 inclusive, and false as soon as a single axis is below 0
\* or above 31: for the coordinates validate_program tests and for every
\* combination of the sampled axis values, once validate_program has
\* returned and before execute starts.
C24_IsValid ==
    (HasValue(validation) /\ ~HasValue(kernel)) =>
        /\ \A i \in 1..Len(program.processes) :
              LET c == program.processes[i].coord
              IN  /\ is_valid(c) <=> in_box(c)
                  /\ axis_outside(c) => ~is_valid(c)
        /\ validation.kind = "Ok" =>
              \A i \in 1..Len(program.processes) : in_box(program.processes[i].coord)
        /\ \A x \in AxisSamples, y \in AxisSamples, z \in AxisSamples :
              /\ is_valid(Coord(x, y, z)) <=> in_box(Coord(x, y, z))
              /\ axis_outside(Coord(x, y, z)) => ~is_valid(Coord(x, y, z))

\* validate_program has tested a coordinate at the upper corner of the range
\* and one with a single axis just past it
C24_Witness ==
    /\ HasValue(validation)
    /\ ~HasValue(kernel)
    /\ validation.kind = "ValidationError"
    /\ \E i \in 1..Len(program.processes) : program.processes[i].coord = Coord(31, 31, 31)
    /\ \E i \in 1..Len(program.processes) : program.processes[i].coord = Coord(0, 0, 32)

\* C25: whenever generate_code succeeds, every coordinate of the resolved
\* placement, as embedded in the artifact and as spawned by execute, has
\* each axis in 0..31.
C25_PlacementInRange ==
    generated =>
        /\ \A nm \in DOMAIN resolved_placement : in_box(resolved_placement[nm])
        /\ \A k \in 1..Len(executable.spawn_entries) : in_box(executable.spawn_entries[k].coord)
        /\ \A k \in 1..Len(spawned) : in_box(spawned[k])

\* the coordinates of the spawn calls written into the artifact, in order
artifact_spawns ==
    [k \in 1..Len(executable.spawn_entries) |-> executable.spawn_entries[k].coord]

\* C26: the sequence of spawn calls written into the generated artifact's
\* spawn_processes method is the sequence of coordinates, in the same
\* order, that execute issues to the engine for that output.
C26_ArtifactSpawnsAsExecuted ==
    (generated /\ pc \in {"inject", "run", "collect", "done"}) =>
        /\ spawned = artifact_spawns
        /\ [k \in 1..Len(spawned) |-> calls_of(calls, "spawn_process")[k].args]
              = [k \in 1..Len(artifact_spawns) |->
                    << artifact_spawns[k].x, artifact_spawns[k].y, artifact_spawns[k].z >>]

\* C27: the seed-event injections performed by the generated artifact's
\* inject_events method are the (coordinate, value) sequence that execute's
\* injector issues for the same seed and placement.
C27_ArtifactInjectionsAsExecuted ==
    (generated /\ pc \in {"run", "collect", "done"}) =>
        artifact_inject_events(executable) = calls_of(calls, "inject_event")

\* what a comparison decides
outcome(result) ==
    << result.events_match, result.current_time_match, result.state_differences,
       result.parity_achieved >>

\* the reference result with its reported configuration and timing shifted
shifted_reference(c, by) ==
    [c EXCEPT !.seed_used = @ + by[1], !.max_events = @ + by[2],
              !.runtime_processes = @ + by[3], !.spacing = @ + by[4],
              !.execution_time_ns = @ + by[5]]

\* C28: the comparison outcome depends only on events_processed,
\* current_time and process_states: the comparison run_harness made and the
\* comparison of the same two results with the reference's reported
\* seed_used, max_events, runtime_processes or spacing, or either side's
\* execution_time_ns, changed have the same events_match,
\* current_time_match, state_differences and parity_achieved.
C28_OutcomeIndependent ==
    pc \in {"report", "exit", "exited"} =>
        /\ outcome(comparison) = outcome(compare(grey, unwrap(reference.result)))
        /\ \A by \in [1..5 -> {0, 1}], ns \in {0, 1} :
              outcome(compare([grey EXCEPT !.execution_time_ns = @ + ns],
                              shifted_reference(unwrap(reference.result), by)))
                 = outcome(comparison)

\* parity was achieved against a reference that reported another seed,
\* event cap, process count and spacing than the local run
C28_Witness ==
    /\ pc = "report"
    /\ comparison.parity_achieved
    /\ comparison.cpp.seed_used # comparison.grey.seed_used
    /\ comparison.cpp.max_events # comparison.grey.max_events
    /\ comparison.cpp.runtime_processes # comparison.grey.runtime_processes
    /\ comparison.cpp.spacing # comparison.grey.spacing
    /\ comparison.cpp.execution_time_ns # comparison.grey.execution_time_ns
    /\ comparison.grey.process_states # EmptyMap

\* valid axis values: both ends of the range, their neighbours and the middle
ValidAxisSamples == {0, 1, 15, 30, 31}

\* the valid coordinate a node id below 32768 stands for
coord_of_id(id) == Coord(id \div 1024, (id \div 32) % 32, id % 32)

\* C29: node_id is injective on valid coordinates: two coordinates with all
\* axes in 0..31 have the same node id exactly when they are equal (each
\* sampled valid coordinate is recovered from its id, and the spawned valid
\* coordinates are compared pairwise), so distinct valid placed processes
\* never share a process_states key.
C29_NodeIdInjective ==
    (execute_returned /\ pc = "done") =>
        /\ \A x \in ValidAxisSamples, y \in ValidAxisSamples, z \in ValidAxisSamples :
              coord_of_id(node_id(Coord(x, y, z))) = Coord(x, y, z)
        /\ \A i \in 1..Len(spawned), j \in 1..Len(spawned) :
              (in_box(spawned[i]) /\ in_box(spawned[j]))
                 => (node_id(spawned[i]) = node_id(spawned[j]) <=> spawned[i] = spawned[j])
        /\ (config.telemetry_enabled /\ \A i \in 1..Len(spawned) : in_box(spawned[i]))
              => Cardinality(DOMAIN telemetry.process_states)
                    = Cardinality({spawned[i] : i \in 1..Len(spawned)})

\* eleven processes at distinct valid coordinates spread over two axes, each
\* with a process_states key of its own
C29_Witness ==
    /\ execute_returned
    /\ pc = "done"
    /\ config.telemetry_enabled
    /\ Len(spawned) = 11
    /\ \A i \in 1..Len(spawned) : in_box(spawned[i])
    /\ Cardinality({spawned[i] : i \in 1..Len(spawned)}) = 11
    /\ Cardinality(DOMAIN telemetry.process_states) = 11

\* the calls of a log that change the engine: create, spawn, inject, run
engine_commands(log) == SelectSeq(log, LAMBDA c : c.op \notin Queries)

\* C30: the telemetry_enabled flag changes only what is collected: with
\* telemetry disabled execute issues the spawn, inject and run calls that
\* the output, the seed and the cap determine (the flag not among them), as
\* an enabled execute does, issues no process_state
\* query, returns an empty process_states map, and reports the
\* events_processed and current_time the engine holds after run, queried
\* after the run call.
C30_TelemetryDisabled ==
    (execute_returned /\ pc = "done" /\ ~config.telemetry_enabled) =>
        LET enabled == collect_telemetry(kernel, spawned, telemetry.execution_time_ns, TRUE)
            n == Len(calls)
        IN  /\ engine_commands(calls)
                  = << CreateCall >>
                    \o [k \in 1..Len(spawned) |-> SpawnCall(spawned[k])]
                    \o inject_initial_events(config.seed, spawned).calls
                    \o << RunCall(unwrap(gen.output).runtime_config.max_events) >>
            /\ calls_of(calls, "process_state") = << >>
            /\ telemetry.process_states = EmptyMap
            /\ telemetry.events_processed = enabled.telemetry.events_processed
            /\ telemetry.current_time = enabled.telemetry.current_time
            /\ telemetry.events_processed = kernel.events_processed
            /\ telemetry.current_time = kernel.current_time
            /\ calls[n - 2].op = "run"
            /\ calls[n - 1].op = "events_processed"
            /\ calls[n].op = "current_time"
            /\ \A r \in 1..Len(runs) : runs[r].telemetry.process_states = EmptyMap

\* an execute with telemetry disabled over several processes that processed
\* events and would have reported states had it been enabled
C30_Witness ==
    /\ execute_returned
    /\ pc = "done"
    /\ ~config.telemetry_enabled
    /\ Len(spawned) >= 4
    /\ Len(calls_of(calls, "inject_event")) = MaxInjections
    /\ telemetry.events_processed > 0
    /\ collect_telemetry(kernel, spawned, 0, TRUE).telemetry.process_states # EmptyMap

==========================================================================
